---- MODULE Spec2Model ----
(***************************************************************************)
(* Vetting pipeline and ledger merge of the Barnfind application:          *)
(* Vetter (src/modules/vetter.py), run_pipeline (src/main.py) and the      *)
(* operator endpoints of src/web_server.py.                                *)
(*                                                                         *)
(* Text is a sequence of one-character strings, so that Python's substring *)
(* test, str.lower, str.split and the regular expressions of the source    *)
(* are computed character by character.                                    *)
(***************************************************************************)
EXTENDS Integers, Sequences, FiniteSets, TLC

(* ----------------------------- text ------------------------------------ *)

UpperChars == <<"A","B","C","D","E","F","G","H","I","J","K","L","M","N","O","P","Q","R","S","T","U","V","W","X","Y","Z">>

LowerChars == <<"a","b","c","d","e","f","g","h","i","j","k","l","m","n","o","p","q","r","s","t","u","v","w","x","y","z">>

DigitChars == <<"0","1","2","3","4","5","6","7","8","9">>

\* Characters of the supplementary planes (U+10000..U+10FFFF), each one
\* written as a single element of a text.
EmojiChars == {"U+1F525", "U+1F697"}

Range(f) == {f[i] : i \in DOMAIN f}

IsDigit(c) == c \in Range(DigitChars)

DigitVal(c) == (CHOOSE i \in 1..10 : DigitChars[i] = c) - 1

\* \w of the re module
IsWordChar(c) == c \in Range(UpperChars) \cup Range(LowerChars) \cup Range(DigitChars) \cup {"_"}

\* \s of the re module
IsSpace(c) == c \in {" ", "\n", "\t"}

LowerChar(c) == IF c \in Range(UpperChars) THEN LowerChars[CHOOSE i \in 1..26 : UpperChars[i] = c] ELSE c

\* str.lower
Lower(text) == [i \in 1..Len(text) |-> LowerChar(text[i])]

\* kw in text
Contains(text, kw) == \E i \in 0..(Len(text) - Len(kw)) : \A j \in 1..Len(kw) : text[i + j] = kw[j]

\* any(k in text for k in kws)
AnyIn(text, kws) == \E n \in 1..Len(kws) : Contains(text, kws[n])

\* f"{a} {b}"
Joined(a, b) == a \o <<" ">> \o b

Slice(text, from, to) == [i \in 1..(to - from + 1) |-> text[from + i - 1]]

Min(a, b) == IF a <= b THEN a ELSE b

\* the element of a one-element set
The(S) == CHOOSE x \in S : TRUE

(* --------------------------- field values ------------------------------ *)

\* None, for hours_since_listed
None == -2

\* a value that is neither None nor a number (a str, list or dict of the
\* scraped payload): ordering it against a number raises TypeError
NonNumeric == -1

IsNum(v) == v >= 0

\* x or 0
OrZero(v) == IF v = None THEN 0 ELSE v

\* dict.get(key, default)
Get(d, key, default) == IF key \in DOMAIN d THEN d[key] ELSE default

(* ------------------------- Listing Classifier -------------------------- *)

\* re.search(r'\b(19\d{2}|20[0-2]\d)\b', text): the positions where the
\* pattern matches
YearMatchAt(text, i) ==
    /\ i + 3 <= Len(text)
    /\ \/ text[i] = "1" /\ text[i + 1] = "9" /\ IsDigit(text[i + 2])
       \/ text[i] = "2" /\ text[i + 1] = "0" /\ text[i + 2] \in {"0", "1", "2"}
    /\ IsDigit(text[i + 3])
    /\ (i = 1 \/ ~IsWordChar(text[i - 1]))
    /\ (i + 3 = Len(text) \/ ~IsWordChar(text[i + 4]))

_extract_year(text) ==
    LET hits == {i \in 1..Len(text) : YearMatchAt(text, i)}
        i == CHOOSE m \in hits : \A n \in hits : m <= n
    IN  IF hits = {} THEN None
        ELSE 1000 * DigitVal(text[i]) + 100 * DigitVal(text[i + 1]) + 10 * DigitVal(text[i + 2]) + DigitVal(text[i + 3])

makes == <<<<"t","o","y","o","t","a">>, <<"h","o","n","d","a">>, <<"s","u","b","a","r","u">>, <<"n","i","s","s","a","n">>, <<"f","o","r","d">>, <<"c","h","e","v","y">>, <<"c","h","e","v","r","o","l","e","t">>, <<"d","o","d","g","e">>, <<"m","i","t","s","u","b","i","s","h","i">>, <<"b","u","i","c","k">>, <<"h","y","u","n","d","a","i">>, <<"k","i","a">>, <<"j","e","e","p">>, <<"g","m","c">>>>

_extract_make(text) ==
    LET hits == {n \in 1..Len(makes) : Contains(text, makes[n])}
    IN  IF hits = {} THEN <<>> ELSE makes[CHOOSE m \in hits : \A n \in hits : m <= n]

kw_pickup == <<"p","i","c","k","u","p">>
kw_truck == <<"t","r","u","c","k">>
kw_suv == <<"s","u","v">>
kw_minivan == <<"m","i","n","i","v","a","n">>
kw_van == <<"v","a","n">>
kw_v8 == <<"v","8">>

\* the type read from the model name as well
_extract_type_by_model(text) ==
    IF Contains(text, kw_pickup) \/ Contains(text, kw_truck) \/ Contains(text, <<"t","a","c","o","m","a">>) THEN "pickup"
    ELSE IF Contains(text, kw_suv) THEN "suv"
    ELSE IF Contains(text, kw_minivan) \/ Contains(text, kw_van) THEN "minivan"
    ELSE "None"

_extract_type(text) ==
    IF Contains(text, kw_pickup) \/ Contains(text, kw_truck) THEN "pickup"
    ELSE IF Contains(text, kw_suv) THEN "suv"
    ELSE IF Contains(text, kw_minivan) \/ Contains(text, kw_van) THEN "minivan"
    ELSE "None"

(* --------------------------- Scoring Engine ---------------------------- *)

handicap_keywords == <<<<"h","a","n","d","i","c","a","p">>, <<"w","h","e","e","l","c","h","a","i","r">>, <<"m","o","b","i","l","i","t","y">>, <<"r","a","m","p">>>>

awd_keywords == <<<<"a","w","d"," ","f","a","u","l","t">>, <<"t","r","a","c","t","i","o","n"," ","c","o","n","t","r","o","l">>, <<"s","t","a","b","i","l","i","t","y"," ","c","o","n","t","r","o","l">>, <<"a","b","s"," ","l","i","g","h","t">>>>

transmission_keywords == <<<<"r","o","u","g","h"," ","s","h","i","f","t">>, <<"h","e","s","i","t","a","t","i","o","n">>>>

spanish_keywords == <<<<"t","i","t","u","l","o">>, <<"t","r","a","s","m","i","s","i","o","n">>, <<"l","i","m","p","i","o">>, <<"l","l","a","n","t","a","s">>, <<"n","e","g","o","c","i","a","b","l","e">>, <<"a","s","i","e","n","t","o","s">>, <<"f","a","l","l","a">>, <<"l","u","c","e","s">>, <<"c","o","r","r","e">>, <<"c","o","n","d","u","c","e">>, <<"m","o","t","o","r">>, <<"a","i","r","e">>, <<"f","r","i","o">>, <<"c","a","l","i","e","n","t","e">>, <<"g","e","n","i","a","l">>, <<"a","l"," ","1","0","0">>>>

repair_tolerance == 2000

\* int(weights.get(name, default))
Weight(cfg, name, default) == Get(Get(cfg, "score_weights", <<>>), name, default)

ListOf(cfg, section, name) == Get(Get(cfg, section, <<>>), name, <<>>)

\* [str(x).lower() for x in ...]
LowerAll(kws) == [n \in 1..Len(kws) |-> Lower(kws[n])]

\* int(filters_cfg.get("junk_suv_price_override", 1000) or 1000)
junk_override(cfg) ==
    LET v == Get(Get(cfg, "filters", <<>>), "junk_suv_price_override", 1000)
    IN  IF v = 0 THEN 1000 ELSE v

Adjust(st, delta, tag) == [score |-> st.score + delta, tags |-> Append(st.tags, tag)]

\* The listing fields calculate_score reads, after the `or` defaults.
ScoreInputs(cfg, listing) ==
    LET description_lower == Lower(listing.description)
        title_lower == Lower(listing.title)
        combined_text == Joined(description_lower, title_lower)
        filters_cfg == Get(cfg, "filters", <<>>)
        junk_keywords == LowerAll(Get(filters_cfg, "junk_suv_keywords", <<>>))
        vehicle_type == _extract_type(combined_text)
    IN  [description_lower |-> description_lower,
         combined_text |-> combined_text,
         high_value |-> LowerAll(ListOf(cfg, "lists", "high_value_makes")),
         medium_value |-> LowerAll(ListOf(cfg, "lists", "medium_value_makes")),
         low_value |-> LowerAll(ListOf(cfg, "lists", "low_value_makes")),
         year |-> _extract_year(combined_text),
         mileage |-> OrZero(listing.mileage),
         price |-> OrZero(listing.price),
         make |-> _extract_make(combined_text),
         vehicle_type |-> vehicle_type,
         is_junk_suv |-> /\ (Contains(combined_text, kw_suv) \/ vehicle_type = "suv")
                         /\ Len(junk_keywords) > 0
                         /\ AnyIn(combined_text, junk_keywords),
         hours_since_listed |-> listing.hours_since_listed]

\* Junk SUV suppression
ScoreJunkSuv(cfg, in, st) ==
    IF in.is_junk_suv
    THEN IF in.price <= junk_override(cfg)
         THEN [score |-> Min(st.score, 30), tags |-> Append(st.tags, "junk_suv_super_cheap")]
         ELSE Adjust(st, -80, "junk_suv_suppressed")
    ELSE st

\* the low-value penalty with the score floored at 0
ScoreLowValue_floored(cfg, in, st) ==
    IF AnyIn(in.combined_text, in.low_value)
    THEN IF in.price > 1500
         THEN [score |-> IF st.score - 100 < 0 THEN 0 ELSE st.score - 100,
               tags |-> Append(st.tags, "reject_low_value_model")]
         ELSE Adjust(st, -10, "cheap_low_value_model")
    ELSE st

\* 1) Low-value logic
ScoreLowValue(cfg, in, st) ==
    IF AnyIn(in.combined_text, in.low_value)
    THEN IF in.price > 1500
         THEN Adjust(st, -100, "reject_low_value_model")
         ELSE Adjust(st, -10, "cheap_low_value_model")
    ELSE st

\* is_high_value never set
is_high_value_never(in) == FALSE

is_high_value(in) ==
    \/ AnyIn(in.combined_text, in.high_value)
    \/ Len(in.make) > 0 /\ \E n \in 1..Len(in.high_value) : in.make = in.high_value[n]

\* the value tiers chained to the low-value test: no bonus for a low-value model
ScoreValueTier_unless_low(cfg, in, st) ==
    IF AnyIn(in.combined_text, in.low_value) THEN st
    ELSE IF AnyIn(in.combined_text, in.high_value)
    THEN Adjust(st, Weight(cfg, "high_value_bonus", 15), "high_value_keyword")
    ELSE IF AnyIn(in.combined_text, in.medium_value)
    THEN Adjust(st, Weight(cfg, "medium_value_bonus", 5), "medium_value_keyword")
    ELSE st

\* the value tiers with the test of the extracted make ahead of the keyword test
ScoreValueTier_make_first(cfg, in, st) ==
    IF Len(in.make) > 0 /\ \E n \in 1..Len(in.high_value) : in.make = in.high_value[n]
    THEN Adjust(st, Weight(cfg, "high_value_bonus", 15), "high_value_make")
    ELSE IF AnyIn(in.combined_text, in.high_value)
    THEN Adjust(st, Weight(cfg, "high_value_bonus", 15), "high_value_keyword")
    ELSE IF AnyIn(in.combined_text, in.medium_value)
    THEN Adjust(st, Weight(cfg, "medium_value_bonus", 5), "medium_value_keyword")
    ELSE st

\* 2) High/Medium value logic
ScoreValueTier(cfg, in, st) ==
    IF AnyIn(in.combined_text, in.high_value)
    THEN Adjust(st, Weight(cfg, "high_value_bonus", 15), "high_value_keyword")
    ELSE IF Len(in.make) > 0 /\ \E n \in 1..Len(in.high_value) : in.make = in.high_value[n]
    THEN Adjust(st, Weight(cfg, "high_value_bonus", 15), "high_value_make")
    ELSE IF AnyIn(in.combined_text, in.medium_value)
    THEN Adjust(st, Weight(cfg, "medium_value_bonus", 5), "medium_value_keyword")
    ELSE st

\* the freshness bonus with the score clamped at 100
ScoreFreshness_clamped(cfg, in, st) ==
    IF in.hours_since_listed # None /\ in.hours_since_listed < 60
    THEN [score |-> Min(st.score + Weight(cfg, "freshness_under_1hr", 25), 100),
          tags |-> Append(st.tags, "fresh_listing")]
    ELSE IF in.hours_since_listed # None /\ in.hours_since_listed < 1440
    THEN Adjust(st, Weight(cfg, "freshness_under_24hr", 10), "daily_listing")
    ELSE st

\* 3) Freshness bonus; hours_since_listed is held in minutes
ScoreFreshness(cfg, in, st) ==
    IF in.hours_since_listed # None /\ in.hours_since_listed < 60
    THEN Adjust(st, Weight(cfg, "freshness_under_1hr", 25), "fresh_listing")
    ELSE IF in.hours_since_listed # None /\ in.hours_since_listed < 1440
    THEN Adjust(st, Weight(cfg, "freshness_under_24hr", 10), "daily_listing")
    ELSE st

\* 4) Year preference
ScoreYear(cfg, in, st) ==
    IF in.year # None /\ in.year # 0
    THEN IF in.year >= 2010
         THEN Adjust(st, Weight(cfg, "year_2010_plus", 10), "modern_year")
         ELSE IF in.year < 2005 /\ ~is_high_value(in)
         THEN Adjust(st, Weight(cfg, "older_non_high_value_penalty", -10), "older_non_high_value")
         ELSE st
    ELSE st

\* 4) Mileage preference
ScoreMileage(cfg, in, st) ==
    IF in.mileage > 0
    THEN IF in.mileage <= 120000
         THEN Adjust(st, Weight(cfg, "mileage_under_120k", 15), "low_mileage")
         ELSE IF in.mileage > 180000 /\ ~is_high_value(in)
         THEN Adjust(st, Weight(cfg, "high_mileage_penalty", -20), "high_mileage_risk")
         ELSE st
    ELSE st

\* 5) Engine/type bonuses
ScoreEngine(cfg, in, st) ==
    IF Contains(in.combined_text, kw_v8) THEN Adjust(st, Weight(cfg, "engine_v8", 10), "v8_engine") ELSE st

ScoreType(cfg, in, st) ==
    IF in.vehicle_type = "pickup"
    THEN Adjust(st, Weight(cfg, "type_pickup", 15), "pickup_truck")
    ELSE IF in.vehicle_type = "minivan"
    THEN LET m == Adjust(st, Weight(cfg, "type_minivan", 15), "minivan")
         IN  IF AnyIn(in.combined_text, handicap_keywords)
             THEN Adjust(m, Weight(cfg, "type_handicap", 40), "handicap_accessible")
             ELSE m
    ELSE st

\* the estimate with a transmission issue priced at 2000
estimated_repairs_dear(in) ==
    (IF AnyIn(in.combined_text, awd_keywords) THEN 500 ELSE 0)
    + (IF AnyIn(in.combined_text, transmission_keywords) THEN 2000 ELSE 0)

estimated_repairs(in) ==
    (IF AnyIn(in.combined_text, awd_keywords) THEN 500 ELSE 0)
    + (IF AnyIn(in.combined_text, transmission_keywords) THEN 1000 ELSE 0)

\* Repair tolerance logic
ScoreRepairs(cfg, in, st) ==
    LET a == IF AnyIn(in.combined_text, awd_keywords)
             THEN [st EXCEPT !.tags = Append(@, "awd_or_sensor_issue")] ELSE st
        b == IF AnyIn(in.combined_text, transmission_keywords)
             THEN [a EXCEPT !.tags = Append(@, "minor_transmission_issue")] ELSE a
    IN  IF estimated_repairs(in) > repair_tolerance
        THEN Adjust(b, -30, "repair_cost_exceeds_tolerance")
        ELSE b

spanish_count(in) ==
    Cardinality({n \in 1..Len(spanish_keywords) : Contains(in.description_lower, spanish_keywords[n])})

emoji_count(in) ==
    Cardinality({i \in 1..Len(in.combined_text) : in.combined_text[i] \in EmojiChars})

\* 6) Spanish/emoji checks
ScoreLanguage(cfg, in, st) ==
    LET a == IF spanish_count(in) >= 2
             THEN Adjust(st, Weight(cfg, "spanish_description_penalty", -10), "spanish_description")
             ELSE st
    IN  IF emoji_count(in) > 4 THEN Adjust(a, -10, "excessive_emojis") ELSE a

\* The comparisons of calculate_score that raise TypeError: price is ordered
\* only in the junk-SUV and low-value branches, hours_since_listed only when
\* it is not None, mileage always.
ScoreRaises(cfg, in) ==
    \/ (in.is_junk_suv \/ AnyIn(in.combined_text, in.low_value)) /\ ~IsNum(in.price)
    \/ in.hours_since_listed # None /\ ~IsNum(in.hours_since_listed)
    \/ ~IsNum(in.mileage)

Raised == [raised |-> TRUE]

\* The rules in the order calculate_score applies them.
ScoreRule(k, cfg, in, st) ==
    CASE k = 1 -> ScoreJunkSuv(cfg, in, st)
      [] k = 2 -> ScoreLowValue(cfg, in, st)
      [] k = 3 -> ScoreValueTier(cfg, in, st)
      [] k = 4 -> ScoreFreshness(cfg, in, st)
      [] k = 5 -> ScoreYear(cfg, in, st)
      [] k = 6 -> ScoreMileage(cfg, in, st)
      [] k = 7 -> ScoreEngine(cfg, in, st)
      [] k = 8 -> ScoreType(cfg, in, st)
      [] k = 9 -> ScoreRepairs(cfg, in, st)
      [] k = 10 -> ScoreLanguage(cfg, in, st)

\* score and tags after the rules k..10 were applied to st
RECURSIVE ScoreFrom(_, _, _, _)
ScoreFrom(k, cfg, in, st) ==
    IF k > 10 THEN st
    ELSE The({ScoreFrom(k + 1, cfg, in, next) : next \in {ScoreRule(k, cfg, in, st)}})

ScoreOf(cfg, in) ==
    IF ScoreRaises(cfg, in) THEN Raised
    ELSE The({[raised |-> FALSE, score |-> st.score, tags |-> st.tags] :
              st \in {ScoreFrom(1, cfg, in, [score |-> 50, tags |-> <<>>])}})

calculate_score(cfg, listing) == The({ScoreOf(cfg, in) : in \in {ScoreInputs(cfg, listing)}})

(* --------------------------- contact numbers --------------------------- *)

DigitsAt(text, i, n) == i + n - 1 <= Len(text) /\ \A j \in i..(i + n - 1) : IsDigit(text[j])

\* position after an optional [-.] at position i
SkipSep(text, i) == IF i <= Len(text) /\ text[i] \in {"-", "."} THEN i + 1 ELSE i

\* position after \s* at position i
RECURSIVE SkipSpaces(_, _)
SkipSpaces(text, i) == IF i <= Len(text) /\ IsSpace(text[i]) THEN SkipSpaces(text, i + 1) ELSE i

\* r'\b\d{3}[-.]?\d{3}[-.]?\d{4}\b' matched at position s: the position of
\* the last matched character, 0 when it does not match there
PlainPhoneEnd(text, s) ==
    LET a == SkipSep(text, s + 3)
        b == SkipSep(text, a + 3)
        e == b + 3
    IN  IF /\ DigitsAt(text, s, 3)
           /\ (s = 1 \/ ~IsWordChar(text[s - 1]))
           /\ DigitsAt(text, a, 3)
           /\ DigitsAt(text, b, 4)
           /\ (e = Len(text) \/ ~IsWordChar(text[e + 1]))
        THEN e ELSE 0

\* r'\(\d{3}\)\s*\d{3}[-.]?\d{4}' matched at position s
ParenPhoneEnd(text, s) ==
    LET a == SkipSpaces(text, s + 5)
        b == SkipSep(text, a + 3)
        e == b + 3
    IN  IF /\ s + 4 <= Len(text)
           /\ text[s] = "("
           /\ DigitsAt(text, s + 1, 3)
           /\ text[s + 4] = ")"
           /\ DigitsAt(text, a, 3)
           /\ DigitsAt(text, b, 4)
        THEN e ELSE 0

\* the two patterns of extract_phone_numbers, matched at position s
PhoneEnd(pattern, text, s) ==
    IF pattern = "plain" THEN PlainPhoneEnd(text, s) ELSE ParenPhoneEnd(text, s)

\* re.findall: leftmost matches, scanned without overlap from position pos
RECURSIVE FindAll(_, _, _)
FindAll(pattern, text, pos) ==
    LET starts == {s \in pos..Len(text) : PhoneEnd(pattern, text, s) # 0}
        s == CHOOSE m \in starts : \A n \in starts : m <= n
    IN  IF starts = {} THEN {}
        ELSE {Slice(text, s, PhoneEnd(pattern, text, s))}
             \cup FindAll(pattern, text, PhoneEnd(pattern, text, s) + 1)

\* list(set(...)): the order of the result is not defined, it is held as a set
extract_phone_numbers(text) ==
    IF Len(text) = 0 THEN {}
    ELSE FindAll("plain", text, 1) \cup FindAll("paren", text, 1)

(* --------------------------- scrape strategy --------------------------- *)

\* int(digits) of a text of digits
RECURSIVE ToInt(_)
ToInt(digits) ==
    IF Len(digits) = 0 THEN 0
    ELSE 10 * ToInt(SubSeq(digits, 1, Len(digits) - 1)) + DigitVal(digits[Len(digits)])

\* re.sub(r'[^\d]', '', text)
DigitsOnly(text) == SelectSeq(text, IsDigit)

\* g groups ",ddd" from position j on
GroupsAt(text, j, g) ==
    \A m \in 0..(g - 1) :
        /\ j + 4 * m <= Len(text)
        /\ text[j + 4 * m] = ","
        /\ DigitsAt(text, j + 4 * m + 1, 3)

\* re.search(r'\b(\d{1,3}(?:,\d{3})+)\b', text): the matches at position i,
\* as <<digits of the head, groups>>
ExactMatchesAt(text, i) ==
    {dg \in (1..3) \X (1..(Len(text) \div 4)) :
        /\ (i = 1 \/ ~IsWordChar(text[i - 1]))
        /\ DigitsAt(text, i, dg[1])
        /\ GroupsAt(text, i + dg[1], dg[2])
        /\ LET e == i + dg[1] + 4 * dg[2] - 1
           IN  e = Len(text) \/ ~IsWordChar(text[e + 1])}

\* the match re.search returns: leftmost, then the longest head, then the
\* most groups; <<>> when the pattern matches nowhere
exact_match(text) ==
    LET starts == {i \in 1..Len(text) : ExactMatchesAt(text, i) # {}}
        i == CHOOSE m \in starts : \A n \in starts : m <= n
        dg == CHOOSE a \in ExactMatchesAt(text, i) :
                  \A b \in ExactMatchesAt(text, i) : a[1] > b[1] \/ (a[1] = b[1] /\ a[2] >= b[2])
    IN  IF starts = {} THEN <<>> ELSE Slice(text, i, i + dg[1] + 4 * dg[2] - 1)

\* ScrapeStrategy.extract_mileage
extract_mileage(mileage_text) ==
    IF Len(mileage_text) = 0 THEN 0
    ELSE IF exact_match(mileage_text) # <<>> THEN ToInt(DigitsOnly(exact_match(mileage_text)))
    ELSE ToInt(DigitsOnly(mileage_text))

\* mileage texts of listing cards
MileageTexts ==
    {<<"1","2","0","k"," ","m","i","l","e","s">>,
     <<"8","5","K">>,
     <<"1","2","3",",","4","5","6"," ","m","i","l","e","s">>,
     <<"1",",","2","3","4",",","5","6","7">>,
     <<"9","8","0","0","0"," ","m","i">>,
     <<"1","2",",","3","4"," ","m","i">>,
     <<"n","/","a">>,
     <<>>}

(* --------------------------- Geocode Resolver -------------------------- *)

\* Nominatim's answer to a query when it answers: a point, held as miles
\* along one axis, or Unresolved when it knows no such place.
Unresolved == -1

place_home == <<"6","0","0","2","5">>
place_near == <<"C","h","i","c","a","g","o",","," ","I","L">>
place_far == <<"M","i","a","m","i",","," ","F","L"," ","3","3","1","0","1">>
place_unknown == <<"?","?","?">>

World(query) ==
    IF query = place_home THEN 0
    ELSE IF query = place_near THEN 15
    ELSE IF query = <<"3","3","1","0","1">> THEN 1200
    ELSE Unresolved

\* geopy.distance.geodesic(a, b).miles
geodesic(a, b) == IF a >= b THEN a - b ELSE b - a

\* re.search(r'\b\d{5}\b', location)
ZipMatchAt(text, i) ==
    /\ DigitsAt(text, i, 5)
    /\ (i = 1 \/ ~IsWordChar(text[i - 1]))
    /\ (i + 4 = Len(text) \/ ~IsWordChar(text[i + 5]))

location_query(location) ==
    LET hits == {i \in 1..Len(location) : ZipMatchAt(location, i)}
        i == CHOOSE m \in hits : \A n \in hits : m <= n
    IN  IF hits = {} THEN location ELSE Slice(location, i, i + 4)

\* Vetter.__init__
home_zip_code(cfg) == Get(Get(cfg, "location", <<>>), "zip_code", place_home)

geo_radius_miles(cfg) == Get(Get(cfg, "location", <<>>), "radius", 250)

\* calculate_distance without the test `if home_loc and listing_loc`
calculate_distance_unchecked(cfg, cache, location, homeFails, queryFails) ==
    The({LET needHome == home \notin DOMAIN cache
             cache1 == IF needHome THEN (home :> World(home)) @@ cache ELSE cache
             needQuery == q \notin DOMAIN cache1
             cache2 == IF needQuery THEN (q :> World(q)) @@ cache1 ELSE cache1
         IN  IF needHome /\ homeFails
             THEN [distance |-> None, cache |-> cache, calls |-> <<home>>]
             ELSE IF needQuery /\ queryFails
             THEN [distance |-> None, cache |-> cache1,
                   calls |-> (IF needHome THEN <<home>> ELSE <<>>) \o <<q>>]
             ELSE [distance |-> geodesic(cache2[home], cache2[q]),
                   cache |-> cache2,
                   calls |-> (IF needHome THEN <<home>> ELSE <<>>) \o (IF needQuery THEN <<q>> ELSE <<>>)]
         : home \in {home_zip_code(cfg)}, q \in {location_query(location)}})

\* One call of calculate_distance on the cache `cache`.  homeFails and
\* queryFails say whether the geocoder raises (timeout, service error) on
\* the call for the home ZIP, respectively for the listing's query, should
\* that call be made.  The result carries the distance (None when it cannot
\* be evaluated), the cache afterwards and the queries sent to the geocoder.
calculate_distance(cfg, cache, location, homeFails, queryFails) ==
    The({LET needHome == home \notin DOMAIN cache
             cache1 == IF needHome THEN (home :> World(home)) @@ cache ELSE cache
             needQuery == q \notin DOMAIN cache1
             cache2 == IF needQuery THEN (q :> World(q)) @@ cache1 ELSE cache1
         IN  IF needHome /\ homeFails
             THEN [distance |-> None, cache |-> cache, calls |-> <<home>>]
             ELSE IF needQuery /\ queryFails
             THEN [distance |-> None, cache |-> cache1,
                   calls |-> (IF needHome THEN <<home>> ELSE <<>>) \o <<q>>]
             ELSE [distance |-> IF cache2[home] # Unresolved /\ cache2[q] # Unresolved
                                THEN geodesic(cache2[home], cache2[q]) ELSE None,
                   cache |-> cache2,
                   calls |-> (IF needHome THEN <<home>> ELSE <<>>) \o (IF needQuery THEN <<q>> ELSE <<>>)]
         : home \in {home_zip_code(cfg)}, q \in {location_query(location)}})

(* --------------------------- Hard Filter Stage ------------------------- *)

FilterList(cfg, name) == LowerAll(Get(Get(cfg, "filters", <<>>), name, <<>>))

\* "passed_but_far_<N>_miles" is held with its N; the other reasons have None
Reason(text, miles) == [text |-> text, miles |-> miles]

\* the keyword rules with the rust keywords looked at first
keyword_rules_rust_first(cfg, listing) ==
    LET combined_text == Joined(Lower(listing.title), Lower(listing.description))
    IN  IF AnyIn(combined_text, FilterList(cfg, "reject_rust_keywords")) THEN "reject_rust_keyword"
        ELSE IF AnyIn(combined_text, FilterList(cfg, "excluded_types")) THEN "excluded_vehicle_type"
        ELSE IF AnyIn(combined_text, FilterList(cfg, "reject_title_keywords")) THEN "reject_title_keyword"
        ELSE IF AnyIn(combined_text, FilterList(cfg, "reject_description_keywords")) THEN "reject_description_keyword"
        ELSE "passed"

\* The keyword rules 1) and 2) of apply_hard_filters, in the order of the
\* code; "passed" when none matches.
keyword_rules(cfg, listing) ==
    LET combined_text == Joined(Lower(listing.title), Lower(listing.description))
    IN  IF AnyIn(combined_text, FilterList(cfg, "excluded_types")) THEN "excluded_vehicle_type"
        ELSE IF AnyIn(combined_text, FilterList(cfg, "reject_title_keywords")) THEN "reject_title_keyword"
        ELSE IF AnyIn(combined_text, FilterList(cfg, "reject_description_keywords")) THEN "reject_description_keyword"
        ELSE IF AnyIn(combined_text, FilterList(cfg, "reject_rust_keywords")) THEN "reject_rust_keyword"
        ELSE "passed"

(* ------------------------- configuration and inputs -------------------- *)

\* A settings.json: the defaults ConfigDB writes, with a filters section.
active_config ==
    [location |-> [zip_code |-> place_home, radius |-> 200],
     lists |-> [high_value_makes |-> <<<<"t","o","y","o","t","a">>, <<"h","o","n","d","a">>, <<"s","u","b","a","r","u">>>>,
                medium_value_makes |-> <<<<"m","a","z","d","a">>, <<"h","y","u","n","d","a","i">>>>,
                low_value_makes |-> <<<<"n","i","s","s","a","n">>, <<"f","o","r","d">>>>],
     score_weights |-> [type_pickup |-> 10, type_minivan |-> 20, type_handicap |-> 30, engine_v8 |-> 10],
     filters |-> [excluded_types |-> <<<<"M","o","t","o","r","c","y","c","l","e">>, <<"b","o","a","t">>>>,
                  reject_title_keywords |-> <<<<"s","a","l","v","a","g","e"," ","t","i","t","l","e">>>>,
                  reject_description_keywords |-> <<<<"f","l","o","o","d">>>>,
                  reject_rust_keywords |-> <<<<"f","r","a","m","e"," ","r","o","t">>>>,
                  junk_suv_keywords |-> <<<<"n","e","e","d","s"," ","w","o","r","k">>>>,
                  junk_suv_price_override |-> 1000]]

\* Raw listings as the scraping collaborator hands them over.
tacoma_fresh ==
    [listing_url |-> <<"f","b","/","1","?","r","=","a">>,
     title |-> <<"2","0","1","2"," ","T","o","y","o","t","a"," ","T","a","c","o","m","a"," ","t","r","u","c","k">>,
     description |-> <<>>,
     price |-> 5000, mileage |-> 100000,
     location |-> <<>>,
     hours_since_listed |-> 30, source |-> "facebook_marketplace"]

\* the same marketplace item seen again under another tracking parameter
tacoma_again ==
    [listing_url |-> <<"f","b","/","1","?","r","=","b">>,
     title |-> <<"2","0","1","2"," ","T","o","y","o","t","a"," ","T","a","c","o","m","a">>,
     description |-> <<"r","u","n","s"," ","g","r","e","a","t">>,
     price |-> 4500, mileage |-> 190000,
     location |-> <<>>,
     hours_since_listed |-> None, source |-> "facebook_marketplace"]

\* a low-value model whose price field is not a number
altima_malformed ==
    [listing_url |-> <<"c","l","/","2">>,
     title |-> <<"N","i","s","s","a","n"," ","A","l","t","i","m","a">>,
     description |-> <<>>,
     price |-> NonNumeric, mileage |-> 0,
     location |-> <<>>,
     hours_since_listed |-> 0, source |-> "facebook_marketplace"]

focus_cheap ==
    [listing_url |-> <<"c","l","/","2">>,
     title |-> <<"2","0","0","3"," ","F","o","r","d"," ","F","o","c","u","s">>,
     description |-> <<"c","a","l","l"," ","5","5","5","-","1","2","3","-","4","5","6","7">>,
     price |-> 1200, mileage |-> 0,
     location |-> <<>>,
     hours_since_listed |-> None, source |-> "craigslist"]

honda_motorcycle ==
    [listing_url |-> <<"c","l","/","3">>,
     title |-> <<"H","o","n","d","a"," ","m","o","t","o","r","c","y","c","l","e">>,
     description |-> <<>>,
     price |-> 900, mileage |-> 0,
     location |-> <<>>,
     hours_since_listed |-> None, source |-> "craigslist"]

\* listings that carry a location: beyond the radius, within it, and one
\* the geocoder does not know
civic_far ==
    [listing_url |-> <<"c","l","/","4">>,
     title |-> <<"2","0","1","5"," ","H","o","n","d","a"," ","C","i","v","i","c">>,
     description |-> <<>>,
     price |-> 6000, mileage |-> 90000,
     location |-> place_far,
     hours_since_listed |-> None, source |-> "craigslist"]

camry_near ==
    [listing_url |-> <<"c","l","/","5">>,
     title |-> <<"T","o","y","o","t","a"," ","C","a","m","r","y">>,
     description |-> <<>>,
     price |-> 3000, mileage |-> 0,
     location |-> place_near,
     hours_since_listed |-> 600, source |-> "craigslist"]

outback_nowhere ==
    [listing_url |-> <<"c","l","/","6">>,
     title |-> <<"S","u","b","a","r","u"," ","O","u","t","b","a","c","k">>,
     description |-> <<>>,
     price |-> 2500, mileage |-> 0,
     location |-> place_unknown,
     hours_since_listed |-> None, source |-> "craigslist"]

\* what the scrapes of the ledger specifications can return
LedgerCatalog == {tacoma_fresh, tacoma_again, focus_cheap, honda_motorcycle}

Catalog == LedgerCatalog \cup {altima_malformed, civic_far, camry_near, outback_nowhere}

\* The configurations of the scoring scenarios: "toyota" as the only
\* high-value make, "altima" as the only low-value model, and a home ZIP the
\* geocoder does not know.  Weights, radius and everything else are defaults.
toyota_config == [lists |-> [high_value_makes |-> <<<<"t","o","y","o","t","a">>>>]]

altima_config == [lists |-> [low_value_makes |-> <<<<"a","l","t","i","m","a">>>>]]

lost_home_config == [location |-> [zip_code |-> place_unknown]]

Configs == {active_config, toyota_config, altima_config, lost_home_config}

\* the listings of the scoring scenarios
tacoma_trd ==
    [listing_url |-> <<"c","l","/","7">>,
     title |-> <<"2","0","2","2"," ","T","o","y","o","t","a"," ","T","a","c","o","m","a"," ","T","R","D">>,
     description |-> <<>>,
     price |-> 35000, mileage |-> 15000,
     location |-> <<>>,
     hours_since_listed |-> 30, source |-> "craigslist"]

tacoma_trd_truck ==
    [listing_url |-> <<"c","l","/","8">>,
     title |-> <<"2","0","2","2"," ","T","o","y","o","t","a"," ","T","a","c","o","m","a"," ","T","R","D"," ","t","r","u","c","k">>,
     description |-> <<>>,
     price |-> 35000, mileage |-> 15000,
     location |-> <<>>,
     hours_since_listed |-> 30, source |-> "craigslist"]

altima_dear ==
    [listing_url |-> <<"c","l","/","9">>,
     title |-> <<"N","i","s","s","a","n"," ","A","l","t","i","m","a">>,
     description |-> <<>>,
     price |-> 5000, mileage |-> 0,
     location |-> <<>>,
     hours_since_listed |-> None, source |-> "craigslist"]

\* listings that match several keyword rules, or the last one alone
boat_rusty ==
    [listing_url |-> <<"c","l","/","1","0">>,
     title |-> <<"F","i","s","h","i","n","g"," ","b","o","a","t">>,
     description |-> <<"f","r","a","m","e"," ","r","o","t">>,
     price |-> 700, mileage |-> 0,
     location |-> <<>>,
     hours_since_listed |-> None, source |-> "craigslist"]

wreck_rusty ==
    [listing_url |-> <<"c","l","/","1","1">>,
     title |-> <<"J","e","e","p",","," ","s","a","l","v","a","g","e"," ","t","i","t","l","e">>,
     description |-> <<"F","r","a","m","e"," ","r","o","t">>,
     price |-> 700, mileage |-> 0,
     location |-> <<>>,
     hours_since_listed |-> None, source |-> "craigslist"]

ranger_rusty ==
    [listing_url |-> <<"c","l","/","1","2">>,
     title |-> <<"C","h","e","v","y"," ","S","1","0">>,
     description |-> <<"f","r","a","m","e"," ","r","o","t">>,
     price |-> 700, mileage |-> 0,
     location |-> <<>>,
     hours_since_listed |-> None, source |-> "craigslist"]

flood_rusty ==
    [listing_url |-> <<"c","l","/","1","9">>,
     title |-> <<"C","h","e","v","y"," ","C","o","b","a","l","t">>,
     description |-> <<"f","l","o","o","d"," ","c","a","r",","," ","f","r","a","m","e"," ","r","o","t">>,
     price |-> 700, mileage |-> 0,
     location |-> <<>>,
     hours_since_listed |-> None, source |-> "craigslist"]

\* junk SUVs at and above the override price
suv_junk_cheap ==
    [listing_url |-> <<"c","l","/","1","3">>,
     title |-> <<"2","0","1","2"," ","J","e","e","p"," ","S","U","V"," ","n","e","e","d","s"," ","w","o","r","k">>,
     description |-> <<>>,
     price |-> 800, mileage |-> 100000,
     location |-> <<>>,
     hours_since_listed |-> 30, source |-> "craigslist"]

suv_junk_bare ==
    [listing_url |-> <<"c","l","/","1","4">>,
     title |-> <<"S","U","V"," ","n","e","e","d","s"," ","w","o","r","k">>,
     description |-> <<>>,
     price |-> 1000, mileage |-> 0,
     location |-> <<>>,
     hours_since_listed |-> None, source |-> "craigslist"]

suv_junk_dear ==
    [listing_url |-> <<"c","l","/","1","5">>,
     title |-> <<"S","U","V"," ","n","e","e","d","s"," ","w","o","r","k">>,
     description |-> <<>>,
     price |-> 3000, mileage |-> 0,
     location |-> <<>>,
     hours_since_listed |-> None, source |-> "craigslist"]

\* old and worn: a high-value make and others
runner_old ==
    [listing_url |-> <<"c","l","/","1","6">>,
     title |-> <<"1","9","9","9"," ","T","o","y","o","t","a"," ","4","R","u","n","n","e","r">>,
     description |-> <<>>,
     price |-> 4000, mileage |-> 200000,
     location |-> <<>>,
     hours_since_listed |-> None, source |-> "craigslist"]

malibu_worn ==
    [listing_url |-> <<"c","l","/","1","7">>,
     title |-> <<"2","0","0","8"," ","C","h","e","v","y"," ","M","a","l","i","b","u">>,
     description |-> <<>>,
     price |-> 2000, mileage |-> 200000,
     location |-> <<>>,
     hours_since_listed |-> None, source |-> "craigslist"]

buick_old ==
    [listing_url |-> <<"c","l","/","1","8">>,
     title |-> <<"1","9","9","8"," ","B","u","i","c","k">>,
     description |-> <<>>,
     price |-> 2000, mileage |-> 130000,
     location |-> <<>>,
     hours_since_listed |-> None, source |-> "craigslist"]

\* a low-value model that names a high-value make
ranger_toyota ==
    [listing_url |-> <<"c","l","/","2","0">>,
     title |-> <<"2","0","0","1"," ","F","o","r","d"," ","R","a","n","g","e","r",","," ","T","o","y","o","t","a"," ","e","n","g","i","n","e">>,
     description |-> <<>>,
     price |-> 3000, mileage |-> 200000,
     location |-> <<>>,
     hours_since_listed |-> None, source |-> "craigslist"]

\* both repair issues in one description
outback_faults ==
    [listing_url |-> <<"c","l","/","2","1">>,
     title |-> <<"S","u","b","a","r","u"," ","O","u","t","b","a","c","k">>,
     description |-> <<"A","B","S"," ","l","i","g","h","t"," ","o","n",","," ","r","o","u","g","h"," ","s","h","i","f","t">>,
     price |-> 2500, mileage |-> 0,
     location |-> <<>>,
     hours_since_listed |-> None, source |-> "craigslist"]

\* what a direct call of a method of the Vetter is given
CallCatalog ==
    Catalog \cup {tacoma_trd, tacoma_trd_truck, altima_dear, boat_rusty, wreck_rusty, flood_rusty, ranger_rusty,
                  suv_junk_cheap, suv_junk_bare, suv_junk_dear, runner_old, malibu_worn, buick_old,
                  ranger_toyota, outback_faults}

\* calculate_score, the keyword rules and extract_phone_numbers read nothing
\* but the listing and the configuration: their values on the catalogues are
\* tabulated once.
Scraped(listing) == [k \in DOMAIN listing \ {"batch_id", "batch_name"} |-> listing[k]]

calculate_score_memo == [cfg \in Configs |-> [l \in CallCatalog |-> calculate_score(cfg, l)]]

keyword_rules_memo == [cfg \in Configs |-> [l \in CallCatalog |-> keyword_rules(cfg, l)]]

extract_phone_numbers_memo == [l \in CallCatalog |-> extract_phone_numbers(Joined(l.title, l.description))]

Tabulated(cfg, listing) == cfg \in Configs /\ Scraped(listing) \in CallCatalog

calculate_score_of(cfg, listing) ==
    IF Tabulated(cfg, listing) THEN calculate_score_memo[cfg][Scraped(listing)] ELSE calculate_score(cfg, listing)

keyword_rules_of(cfg, listing) ==
    IF Tabulated(cfg, listing) THEN keyword_rules_memo[cfg][Scraped(listing)] ELSE keyword_rules(cfg, listing)

\* combined_text = f"{listing.get('title', '')} {listing.get('description', '')}"
extract_phone_numbers_of(listing) ==
    IF Tabulated(active_config, listing) THEN extract_phone_numbers_memo[Scraped(listing)]
    ELSE extract_phone_numbers(Joined(listing.title, listing.description))

\* the hard filter with the distance check rejecting a listing beyond the radius
apply_hard_filters_far_rejected(cfg, cache, listing, homeFails, queryFails) ==
    The({IF rule # "passed"
         THEN [passed |-> FALSE, reason |-> Reason(rule, None), cache |-> cache, calls |-> <<>>]
         ELSE IF Len(listing.location) > 0
         THEN The({IF d.distance # None /\ d.distance # 0 /\ d.distance > geo_radius_miles(cfg)
                   THEN [passed |-> FALSE, reason |-> Reason("outside_radius", d.distance),
                         cache |-> d.cache, calls |-> d.calls]
                   ELSE [passed |-> TRUE, reason |-> Reason("passed", None),
                         cache |-> d.cache, calls |-> d.calls]
                   : d \in {calculate_distance(cfg, cache, listing.location, homeFails, queryFails)}})
         ELSE [passed |-> TRUE, reason |-> Reason("passed", None), cache |-> cache, calls |-> <<>>]
         : rule \in {keyword_rules_of(cfg, listing)}})

\* apply_hard_filters on the cache `cache`: passed, the reason, the cache
\* afterwards and the queries sent to the geocoder
apply_hard_filters(cfg, cache, listing, homeFails, queryFails) ==
    The({IF rule # "passed"
         THEN [passed |-> FALSE, reason |-> Reason(rule, None), cache |-> cache, calls |-> <<>>]
         ELSE IF Len(listing.location) > 0
         THEN The({IF d.distance # None /\ d.distance # 0 /\ d.distance > geo_radius_miles(cfg)
                   THEN [passed |-> TRUE, reason |-> Reason("passed_but_far_<N>_miles", d.distance),
                         cache |-> d.cache, calls |-> d.calls]
                   ELSE [passed |-> TRUE, reason |-> Reason("passed", None),
                         cache |-> d.cache, calls |-> d.calls]
                   : d \in {calculate_distance(cfg, cache, listing.location, homeFails, queryFails)}})
         ELSE [passed |-> TRUE, reason |-> Reason("passed", None), cache |-> cache, calls |-> <<>>]
         : rule \in {keyword_rules_of(cfg, listing)}})

apply_valuation_check(listing) == TRUE

(* --------------------------- Vetting Pipeline -------------------------- *)

\* the processed listing without its vet_status
Processed_unmarked(listing, scored) ==
    [score |-> scored.score, tags |-> scored.tags,
     phone_numbers |-> extract_phone_numbers_of(listing)] @@ listing

\* The processed listing Vetter.execute builds from an approved listing.
Processed(listing, scored) ==
    [score |-> scored.score, tags |-> scored.tags, vet_status |-> "approved",
     phone_numbers |-> extract_phone_numbers_of(listing)] @@ listing

\* Vetter.execute from the n-th listing on.  fails[n] tells which geocoder
\* calls made for the n-th listing raise.  An exception of calculate_score
\* leaves the loop and the call: nothing is returned.
RECURSIVE execute_from(_, _, _, _, _, _)
execute_from(cfg, cache, raw_listings, fails, n, processed_listings) ==
    IF n > Len(raw_listings)
    THEN [raised |-> FALSE, processed_listings |-> processed_listings, cache |-> cache]
    ELSE The({IF ~f.passed \/ ~apply_valuation_check(listing)
              THEN execute_from(cfg, f.cache, raw_listings, fails, n + 1, processed_listings)
              ELSE The({IF scored.raised
                        THEN [raised |-> TRUE, processed_listings |-> processed_listings, cache |-> f.cache]
                        ELSE The({execute_from(cfg, f.cache, raw_listings, fails, n + 1, processed)
                                  : processed \in {Append(processed_listings, Processed(listing, scored))}})
                        : scored \in {calculate_score_of(cfg, listing)}})
              : listing \in {raw_listings[n]},
                f \in {apply_hard_filters(cfg, cache, raw_listings[n], fails[n].home, fails[n].query)}})

execute(cfg, cache, raw_listings, fails) == execute_from(cfg, cache, raw_listings, fails, 1, <<>>)

(* ------------------------------- bounds -------------------------------- *)

\* listings one scrape returns
MaxBatch == 2

\* pipeline runs started, over all processes
MaxRuns == 2

\* operator requests served
MaxOps == 1

\* listings held in a digest by direct calls of the Herald
MaxDigest == 2

(* ------------------------------- state --------------------------------- *)

\* "service" is the scheduler process (python3 main.py) started by
\* /api/start; "manual" is the process /api/ops/scrape spawns.
Procs == {"service", "manual"}

hurricane_names == {"Arthur"}

OperatorStatuses == {"sold"}

VARIABLES
    ledger,        \* the listings collection / table, in insertion order
    backend,       \* "mongo" (MongoAdapter) or "tinydb" (TinyDB table)
    now,           \* datetime.now(), in seconds
    run,           \* per process: the position of run_pipeline and its locals
    geo_cache,     \* per process: Vetter.geo_cache
    daily_digest,  \* per process: Herald.daily_digest
    started,       \* pipeline runs started so far
    ops,           \* operator requests served so far
    config,        \* Vetter.config, the settings the Vetter was constructed with
    call           \* the last method called directly, with its arguments and what it returned

vars == <<ledger, backend, now, run, geo_cache, daily_digest, started, ops, config, call>>

Idle == [pc |-> "idle", batch_id |-> 0, batch_name |-> <<>>, raw_listings |-> <<>>,
         processed_listings |-> <<>>, i |-> 0, listing |-> <<>>, existing_results |-> <<>>]

\* no method was called yet
NoCall == [method |-> "none"]

Init ==
    /\ ledger = <<>>
    /\ backend \in {"mongo", "tinydb"}
    /\ now = 0
    /\ run = [p \in Procs |-> Idle]
    /\ geo_cache = [p \in Procs |-> <<>>]
    /\ daily_digest = [p \in Procs |-> <<>>]
    /\ started = 0
    /\ ops = 0
    /\ config = active_config
    /\ call = NoCall

RECURSIVE SeqsUpTo(_, _)
SeqsUpTo(S, n) == IF n = 0 THEN {<<>>} ELSE LET shorter == SeqsUpTo(S, n - 1) IN shorter \cup {Append(s, e) : s \in shorter, e \in S}

Batches == SeqsUpTo(LedgerCatalog, MaxBatch)

Active(p) == run[p].pc \in {"vet", "lookup", "write", "notify"}

\* The process of p has exited: a manual run is a process of its own
\* (main.py --manual returns after one run_pipeline), and an exception
\* that leaves run_pipeline ends the process it ran in.
Exited(p, r) == r.pc = "failed" \/ (p = "manual" /\ r.pc = "idle")

\* Vetter.geo_cache and Herald.daily_digest live as long as the process
Kept(p, r, value) == IF Exited(p, r) THEN <<>> ELSE value

(* ------------------------------- store --------------------------------- *)

Matches(table, url) == {k \in 1..Len(table) : table[k].listing_url = url}

First(S) == CHOOSE m \in S : \A n \in S : m <= n

SelectDocs(table, url) ==
    LET F[k \in 0..Len(table)] ==
            IF k = 0 THEN <<>>
            ELSE IF table[k].listing_url = url THEN Append(F[k - 1], table[k]) ELSE F[k - 1]
    IN  F[Len(table)]

\* a look-up that never finds the stored document
get_by_url_miss(store, table, url) == <<>>

\* MongoAdapter.get_by_url (find_one), respectively
\* listings_table.search(Listing.listing_url == clean_url)
get_by_url(store, table, url) ==
    IF store = "mongo"
    THEN IF Matches(table, url) = {} THEN <<>> ELSE <<table[First(Matches(table, url))]>>
    ELSE SelectDocs(table, url)

\* MongoAdapter.insert (insert_one), Table.insert
insert(table, doc) == Append(table, doc)

\* {'$set': data}, dict.update(data)
SetFields(doc, data) == data @@ doc

\* an update whose filter is lost: every document is written
update_by_url_everywhere(store, table, url, data) ==
    [k \in 1..Len(table) |-> SetFields(table[k], data)]

\* MongoAdapter.update_by_url (update_one: the first match), respectively
\* listings_table.update(update_data, Listing.listing_url == clean_url)
\* (every match)
update_by_url(store, table, url, data) ==
    LET hit == IF store = "mongo"
               THEN (IF Matches(table, url) = {} THEN {} ELSE {First(Matches(table, url))})
               ELSE Matches(table, url)
    IN  [k \in 1..Len(table) |-> IF k \in hit THEN SetFields(table[k], data) ELSE table[k]]

(* ----------------------------- run_pipeline ---------------------------- *)

\* raw_url.split('?')[0] if raw_url else ''
\* the URL kept with its query string
clean_url_keep(raw_url) == raw_url

clean_url(raw_url) ==
    LET marks == {i \in 1..Len(raw_url) : raw_url[i] = "?"}
    IN  IF marks = {} THEN raw_url ELSE Slice(raw_url, 1, First(marks) - 1)

\* STEP 1 (HUNT): the scrape returns its listings and every one is tagged
\* with the batch of this run.  batch_id is the start time to the second:
\* a run that starts while another is under way can start within the same
\* second, a run that starts after another has ended starts later.
\* A service whose run failed is started again by /api/start.
Hunt(p) ==
    /\ run[p].pc \in {"idle", "failed"}
    /\ started < MaxRuns
    /\ started' = started + 1
    /\ \E raw_listings \in Batches, name \in hurricane_names,
          tick \in (IF \E q \in Procs : Active(q) THEN {0, 1} ELSE {1}) :
         LET batch_id == now + tick
             batch_name == <<name, batch_id>>
             tagged == [n \in 1..Len(raw_listings) |->
                           [batch_id |-> batch_id, batch_name |-> batch_name] @@ raw_listings[n]]
         IN  /\ now' = batch_id
             /\ run' = [run EXCEPT ![p] =
                           IF raw_listings = <<>> THEN Idle
                           ELSE [Idle EXCEPT !.pc = "vet", !.batch_id = batch_id,
                                             !.batch_name = batch_name, !.raw_listings = tagged]]
    /\ UNCHANGED <<ledger, backend, geo_cache, daily_digest, ops, config, call>>

FailChoices == [home : BOOLEAN, query : BOOLEAN]

\* which geocoder calls raise, listing by listing: the geocoder is called
\* only for a listing that has a location
FailsFor(raw_listings) ==
    {fails \in [1..Len(raw_listings) -> FailChoices] :
        \A n \in 1..Len(raw_listings) :
            Len(raw_listings[n].location) = 0 => fails[n] = [home |-> FALSE, query |-> FALSE]}

\* STEP 2 (VET): vetter.execute(raw_listings).  An exception leaves
\* run_pipeline; an empty result returns.
Vet(p) ==
    /\ run[p].pc = "vet"
    /\ \E fails \in FailsFor(run[p].raw_listings) :
         \E r \in {execute(active_config, geo_cache[p], run[p].raw_listings, fails)} :
             /\ run' = [run EXCEPT ![p] =
                           IF r.raised THEN [Idle EXCEPT !.pc = "failed"]
                           ELSE IF r.processed_listings = <<>> THEN Idle
                           ELSE [@ EXCEPT !.pc = "lookup", !.raw_listings = <<>>,
                                          !.processed_listings = r.processed_listings, !.i = 1]]
             /\ geo_cache' = [geo_cache EXCEPT ![p] = Kept(p, run'[p], r.cache)]
             /\ daily_digest' = [daily_digest EXCEPT ![p] = Kept(p, run'[p], @)]
    /\ UNCHANGED <<ledger, backend, now, started, ops, config, call>>

\* Step 3, first half (lines 315-346): stamp the listing, normalize its URL
\* and look the URL up.
Lookup(p) ==
    /\ run[p].pc = "lookup"
    /\ LET listing == run[p].processed_listings[run[p].i]
           processed_at == now
           hours_ago == listing.hours_since_listed
           stamped == [processed_at |-> processed_at,
                       listed_at |-> [at |-> processed_at, hours_ago |-> IF hours_ago # None THEN hours_ago ELSE 0],
                       listing_url |-> clean_url(listing.listing_url)]
                      @@ listing @@ [status |-> "active"]
       IN  run' = [run EXCEPT ![p] = [@ EXCEPT !.pc = "write", !.listing = stamped,
                                                !.existing_results = get_by_url(backend, ledger, stamped.listing_url)]]
    /\ UNCHANGED <<ledger, backend, now, geo_cache, daily_digest, started, ops, config, call>>

\* the history entry without the price
HistoryEntry_unpriced(listing) == [batch_id |-> listing.batch_id, batch_name |-> listing.batch_name]

HistoryEntry(listing) == [batch_id |-> listing.batch_id, batch_name |-> listing.batch_name, price |-> listing.price]

\* the history replaced by the entry of this batch
merged_history_reset(existing_item, listing) == <<HistoryEntry(listing)>>

\* the entry of this batch appended without looking for it
merged_history_always(existing_item, listing) ==
    Append(Get(existing_item, "batch_history", <<>>), HistoryEntry(listing))

\* history of the update path: the entry of this batch is appended unless
\* the batch is already there
merged_history(existing_item, listing) ==
    LET history == Get(existing_item, "batch_history", <<>>)
    IN  IF \E n \in 1..Len(history) : history[n].batch_id = listing.batch_id
        THEN history ELSE Append(history, HistoryEntry(listing))

\* update_data with the status of the scraped listing in it
update_data_with_status(existing_item, listing, last_seen) ==
    [status |-> listing.status, price |-> listing.price, score |-> listing.score,
     last_seen |-> last_seen, batch_id |-> listing.batch_id, batch_name |-> listing.batch_name,
     batch_history |-> merged_history(existing_item, listing)]

update_data(existing_item, listing, last_seen) ==
    [price |-> listing.price, score |-> listing.score, last_seen |-> last_seen,
     batch_id |-> listing.batch_id, batch_name |-> listing.batch_name,
     batch_history |-> merged_history(existing_item, listing)]

Advance(r, listing) ==
    [r EXCEPT !.pc = IF r.i = Len(r.processed_listings) THEN "notify" ELSE "lookup",
              !.processed_listings[r.i] = listing,
              !.i = r.i + 1, !.listing = <<>>, !.existing_results = <<>>]

\* Step 3, second half (lines 348-384): insert when the look-up found
\* nothing, update otherwise.  A write the store refuses raises out of
\* run_pipeline.
Write(p) ==
    /\ run[p].pc = "write"
    /\ LET r == run[p]
           new == [batch_history |-> <<HistoryEntry(r.listing)>>] @@ r.listing
       IN  \/ /\ r.existing_results = <<>>
              /\ ledger' = insert(ledger, new)
              /\ run' = [run EXCEPT ![p] = Advance(r, new)]
           \/ /\ r.existing_results # <<>>
              /\ ledger' = update_by_url(backend, ledger, r.listing.listing_url,
                                         update_data(r.existing_results[1], r.listing, now))
              /\ run' = [run EXCEPT ![p] = Advance(r, r.listing)]
    /\ UNCHANGED <<backend, now, geo_cache, daily_digest, started, ops, config, call>>

\* the documents of table that batch batch_id has not written
WithoutBatch(table, batch_id) ==
    LET F[k \in 0..Len(table)] ==
            IF k = 0 THEN <<>>
            ELSE IF table[k].batch_id = batch_id THEN F[k - 1] ELSE Append(F[k - 1], table[k])
    IN  F[Len(table)]

\* a failed write that undoes what the batch has written
WriteFailsRollsBack(p) ==
    /\ run[p].pc = "write"
    /\ run' = [run EXCEPT ![p] = [@ EXCEPT !.pc = "failed", !.listing = <<>>, !.existing_results = <<>>]]
    /\ ledger' = WithoutBatch(ledger, run[p].batch_id)
    /\ geo_cache' = [geo_cache EXCEPT ![p] = <<>>]
    /\ daily_digest' = [daily_digest EXCEPT ![p] = <<>>]
    /\ UNCHANGED <<backend, now, started, ops, config, call>>

\* insert_one / update_one / Table.insert / Table.update raises
WriteFails(p) ==
    /\ run[p].pc = "write"
    /\ run' = [run EXCEPT ![p] = [@ EXCEPT !.pc = "failed", !.listing = <<>>, !.existing_results = <<>>]]
    /\ geo_cache' = [geo_cache EXCEPT ![p] = <<>>]
    /\ daily_digest' = [daily_digest EXCEPT ![p] = <<>>]
    /\ UNCHANGED <<ledger, backend, now, started, ops, config, call>>

(* ------------------------------- Herald -------------------------------- *)

\* Herald.process_listing on the digest: a medium score joins the digest
process_listing(digest, listing) ==
    IF listing.score >= 90 THEN digest
    ELSE IF 70 <= listing.score /\ listing.score < 90 THEN Append(digest, listing)
    ELSE digest

\* format_alert_message formats the price with f"${price:,}"
AlertRaises(listing) == listing.score >= 90 /\ ~IsNum(OrZero(listing.price))

\* Herald.execute from the n-th listing on
RECURSIVE herald_execute(_, _, _)
herald_execute(digest, processed_listings, n) ==
    IF n > Len(processed_listings) THEN [raised |-> FALSE, digest |-> digest]
    ELSE IF AlertRaises(processed_listings[n]) THEN [raised |-> TRUE, digest |-> digest]
    ELSE herald_execute(process_listing(digest, processed_listings[n]), processed_listings, n + 1)

\* Step 4: herald.execute(processed_listings), then run_pipeline returns
Notify(p) ==
    /\ run[p].pc = "notify"
    /\ LET h == herald_execute(daily_digest[p], run[p].processed_listings, 1)
       IN  /\ run' = [run EXCEPT ![p] = IF h.raised THEN [Idle EXCEPT !.pc = "failed"] ELSE Idle]
           /\ daily_digest' = [daily_digest EXCEPT ![p] = Kept(p, run'[p], h.digest)]
           /\ geo_cache' = [geo_cache EXCEPT ![p] = Kept(p, run'[p], @)]
    /\ UNCHANGED <<ledger, backend, now, started, ops, config, call>>

\* a digest that is cleared whatever became of the e-mail
digest_after_send_always_cleared(digest, success) == <<>>

\* the digest after send_daily_digest: no e-mail is tried for an empty
\* digest, and clear_daily_digest runs only when send_daily_digest_email
\* returned True (success); a False or an exception leaves the digest
digest_after_send(digest, success) ==
    IF Len(digest) > 0 /\ success THEN <<>> ELSE digest

\* send_daily_digest, run by the scheduler of the service process between
\* two pipeline runs: the digest is cleared when the e-mail was sent
send_daily_digest(success) ==
    /\ run["service"].pc = "idle"
    /\ daily_digest["service"] # <<>>
    /\ daily_digest' = [daily_digest EXCEPT !["service"] = digest_after_send(@, success)]
    /\ UNCHANGED <<ledger, backend, now, run, geo_cache, started, ops, config, call>>

(* ------------------------------ operator ------------------------------- *)

\* /api/update_status (MongoDB only) and /api/listings/bulk_status on the
\* k-th document
update_status(k, new_status) ==
    /\ ops < MaxOps
    /\ k \in 1..Len(ledger)
    /\ ledger' = [ledger EXCEPT ![k] =
                     SetFields(@, IF new_status = "tickle"
                                  THEN [status |-> new_status, tickle_at |-> now]
                                  ELSE [status |-> new_status])]
    /\ ops' = ops + 1
    /\ UNCHANGED <<backend, now, run, geo_cache, daily_digest, started, config, call>>

\* /api/listings/delete on the k-th document: a soft delete.  The TinyDB
\* branch leaves a document that is already deleted alone.
delete_listings(k) ==
    /\ ops < MaxOps
    /\ k \in 1..Len(ledger)
    /\ ledger' = [ledger EXCEPT ![k] =
                     IF backend = "tinydb" /\ Get(@, "status", "") = "deleted" THEN @
                     ELSE SetFields(@, [status |-> "deleted", deleted_at |-> now])]
    /\ ops' = ops + 1
    /\ UNCHANGED <<backend, now, run, geo_cache, daily_digest, started, config, call>>

Operator ==
    \/ \E k \in 1..Len(ledger), s \in OperatorStatuses : update_status(k, s)
    \/ \E k \in 1..Len(ledger) : delete_listings(k)

(* --------------------------- specifications ---------------------------- *)

PipelineStep(p) == Vet(p) \/ Lookup(p) \/ Write(p) \/ WriteFails(p) \/ Notify(p)

\* The processes as the code starts them: /api/ops/scrape spawns a manual
\* run whatever the service is doing.
Next ==
    \/ \E p \in Procs : Hunt(p)
    \/ \E p \in Procs : PipelineStep(p)
    \/ \E success \in BOOLEAN : send_daily_digest(success)
    \/ Operator

Spec == Init /\ [][Next]_vars

\* The reference design: at most one pipeline run at a time.
HuntAlone(p) == (\A q \in Procs \ {p} : ~Active(q)) /\ Hunt(p)

SerialNext ==
    \/ \E p \in Procs : HuntAlone(p)
    \/ \E p \in Procs : PipelineStep(p)
    \/ \E success \in BOOLEAN : send_daily_digest(success)
    \/ Operator

SerialSpec == Init /\ [][SerialNext]_vars

\* Vetter.execute called on its own, as the tests of the module call it:
\* one Vetter, whose geo_cache lives on from call to call.  The call returns
\* the approved listings or raises.
VetterBatches == SeqsUpTo(Catalog, MaxBatch)

VetterExecute ==
    /\ \E raw_listings \in VetterBatches :
         \E fails \in FailsFor(raw_listings) :
           \E r \in {execute(active_config, geo_cache["service"], raw_listings, fails)} :
             /\ run' = [run EXCEPT !["service"] =
                           [Idle EXCEPT !.pc = IF r.raised THEN "raised" ELSE "returned",
                                        !.raw_listings = raw_listings,
                                        !.processed_listings = r.processed_listings]]
             /\ geo_cache' = [geo_cache EXCEPT !["service"] = r.cache]
    /\ UNCHANGED <<ledger, backend, now, daily_digest, started, ops, config, call>>

VetterSpec == Init /\ [][VetterExecute]_vars

\* The methods of one Vetter called directly, as a test of the module or a
\* console session calls them: the Vetter is constructed with one of the
\* configurations, its geo_cache lives on from call to call, and every call
\* is recorded with its arguments and its result.
CallsInit ==
    /\ ledger = <<>>
    /\ backend \in {"mongo", "tinydb"}
    /\ now = 0
    /\ run = [p \in Procs |-> Idle]
    /\ geo_cache = [p \in Procs |-> <<>>]
    /\ daily_digest = [p \in Procs |-> <<>>]
    /\ started = 0
    /\ ops = 0
    /\ config \in Configs
    /\ call = NoCall

CallDistance ==
    /\ \E listing \in CallCatalog, fails \in FailChoices :
         /\ Len(listing.location) > 0
         /\ \E d \in {calculate_distance(config, geo_cache["service"], listing.location, fails.home, fails.query)} :
              /\ call' = [method |-> "calculate_distance", location |-> listing.location,
                          fails |-> fails, cache |-> geo_cache["service"], distance |-> d.distance,
                          calls |-> d.calls]
              /\ geo_cache' = [geo_cache EXCEPT !["service"] = d.cache]
    /\ UNCHANGED <<ledger, backend, now, run, daily_digest, started, ops, config>>

CallHardFilters ==
    /\ \E listing \in CallCatalog :
         \E fails \in {fs[1] : fs \in FailsFor(<<listing>>)} :
           \E f \in {apply_hard_filters(config, geo_cache["service"], listing, fails.home, fails.query)} :
              /\ call' = [method |-> "apply_hard_filters", listing |-> listing,
                          fails |-> fails, cache |-> geo_cache["service"],
                          passed |-> f.passed, reason |-> f.reason, calls |-> f.calls]
              /\ geo_cache' = [geo_cache EXCEPT !["service"] = f.cache]
    /\ UNCHANGED <<ledger, backend, now, run, daily_digest, started, ops, config>>

CallScore ==
    /\ \E listing \in CallCatalog :
         \E scored \in {calculate_score_of(config, listing)} :
              call' = [method |-> "calculate_score", listing |-> listing, returned |-> scored]
    /\ UNCHANGED <<ledger, backend, now, run, geo_cache, daily_digest, started, ops, config>>

\* extract_mileage of the scrape strategy, called on the text of a card
CallExtractMileage ==
    /\ \E mileage_text \in MileageTexts :
         call' = [method |-> "extract_mileage", mileage_text |-> mileage_text,
                  returned |-> extract_mileage(mileage_text)]
    /\ UNCHANGED <<ledger, backend, now, run, geo_cache, daily_digest, started, ops, config>>

CallsNext == CallDistance \/ CallHardFilters \/ CallScore \/ CallExtractMileage

CallsSpec == CallsInit /\ [][CallsNext]_vars

\* The Herald called directly: process_listing on listings the Vetter has
\* approved, and send_daily_digest with each outcome of the e-mail.  Every
\* call is recorded with the digest it found.
SendOutcomes == {"sent", "failed", "raised"}

HeraldProcessListing ==
    /\ Len(daily_digest["service"]) < MaxDigest
    /\ \E listing \in CallCatalog :
         \E scored \in {calculate_score_of(config, listing)} :
              /\ ~scored.raised
              /\ ~AlertRaises(Processed(listing, scored))
              /\ daily_digest' = [daily_digest EXCEPT !["service"] = process_listing(@, Processed(listing, scored))]
              /\ call' = [method |-> "process_listing", listing |-> Processed(listing, scored),
                          digest |-> daily_digest["service"]]
    /\ UNCHANGED <<ledger, backend, now, run, geo_cache, started, ops, config>>

HeraldSendDailyDigest ==
    /\ \E outcome \in SendOutcomes :
         /\ daily_digest' = [daily_digest EXCEPT !["service"] = digest_after_send(@, outcome = "sent")]
         /\ call' = [method |-> "send_daily_digest", digest |-> daily_digest["service"],
                     outcome |-> IF daily_digest["service"] = <<>> THEN "empty" ELSE outcome]
    /\ UNCHANGED <<ledger, backend, now, run, geo_cache, started, ops, config>>

HeraldNext == HeraldProcessListing \/ HeraldSendDailyDigest

HeraldSpec == Init /\ [][HeraldNext]_vars

(* ------------------------------- claims -------------------------------- *)

\* the part of a URL before its first "?"
UrlKey(url) ==
    LET n == CHOOSE m \in 0..Len(url) :
                 /\ \A i \in 1..m : url[i] # "?"
                 /\ (m = Len(url) \/ url[m + 1] = "?")
    IN  SubSeq(url, 1, n)

BatchIds(history) == {history[n].batch_id : n \in 1..Len(history)}

IsPrefix(a, b) == Len(a) <= Len(b) /\ \A n \in 1..Len(a) : a[n] = b[n]

\* process p completes the write of its current listing in this step
WriteDone(p) == run[p].pc = "write" /\ run'[p].pc \in {"lookup", "notify"}

\* C1: when pipeline runs execute one at a time, no two records of the
\* ledger have the same normalized listing_url, and every stored
\* listing_url is normalized.
C1_OneRecordPerUrl ==
    \A j, k \in 1..Len(ledger) :
        /\ UrlKey(ledger[j].listing_url) = ledger[j].listing_url
        /\ UrlKey(ledger[j].listing_url) = UrlKey(ledger[k].listing_url) => j = k

\* two URLs are stored and one of them was observed by two runs
C1_Reobserved ==
    /\ Len(ledger) = 2
    /\ \E k \in 1..Len(ledger) : Cardinality(BatchIds(ledger[k].batch_history)) = 2

\* C2: in every step every record stays where it is, its earlier
\* batch_history is a prefix of its later batch_history, and no
\* batch_history holds two entries with the same batch_id.
C2_HistoryGrows ==
    [][/\ \A k \in 1..Len(ledger) :
            /\ k <= Len(ledger')
            /\ ledger'[k].listing_url = ledger[k].listing_url
            /\ IsPrefix(ledger[k].batch_history, ledger'[k].batch_history)
       /\ \A k \in 1..Len(ledger') :
            Cardinality(BatchIds(ledger'[k].batch_history)) = Len(ledger'[k].batch_history)]_vars

\* a history that has grown by the entry of a second batch, at another price
C2_Grown ==
    \E k \in 1..Len(ledger) :
        /\ Len(ledger[k].batch_history) = 2
        /\ ledger[k].batch_history[1].price # ledger[k].batch_history[2].price

\* C3: a step that is not an operator request leaves the status of every
\* record as it was, and a merge on the update path sets price, score and
\* last_seen of the record to those of the new observation.
C3_StatusOnlyByOperator ==
    [][/\ ops' = ops => \A k \in 1..Len(ledger) : ledger'[k].status = ledger[k].status
       /\ \A p \in Procs :
            WriteDone(p) /\ run[p].existing_results # <<>> =>
                \E k \in Matches(ledger, run[p].listing.listing_url) :
                    /\ ledger'[k].price = run[p].listing.price
                    /\ ledger'[k].score = run[p].listing.score
                    /\ ledger'[k].last_seen = now
                    /\ ledger'[k].status = ledger[k].status]_vars

\* a record the operator deleted before a later run observed it again
C3_DeletedThenReobserved ==
    \E k \in 1..Len(ledger) :
        /\ ledger[k].status = "deleted"
        /\ "last_seen" \in DOMAIN ledger[k]
        /\ ledger[k].deleted_at < ledger[k].last_seen

\* C4: a merge of a listing whose batch_id is already in the history of its
\* record leaves that history with exactly one entry of that batch_id, and
\* leaves the status of the record as it was.
C4_SameBatchOnce ==
    [][\A p \in Procs :
         WriteDone(p) =>
            \A k \in Matches(ledger, run[p].listing.listing_url) :
                run[p].batch_id \in BatchIds(ledger[k].batch_history) =>
                    /\ Cardinality({n \in 1..Len(ledger'[k].batch_history) :
                                       ledger'[k].batch_history[n].batch_id = run[p].batch_id}) = 1
                    /\ ledger'[k].status = ledger[k].status]_vars

\* a run has merged two observations of one URL, and the record has one entry
C4_MergedTwice ==
    \E p \in Procs, k \in 1..Len(ledger) :
        /\ run[p].pc = "notify"
        /\ Len(run[p].processed_listings) = 2
        /\ run[p].processed_listings[1].listing_url = ledger[k].listing_url
        /\ run[p].processed_listings[2].listing_url = ledger[k].listing_url
        /\ Len(ledger[k].batch_history) = 1

\* C5: a listing whose URL, up to the query string, is the URL of a stored
\* record is merged into that record (no record is added); a listing whose
\* URL is new is inserted under the URL without its query string.
C5_QueryStringSameRecord ==
    [][\A p \in Procs :
         WriteDone(p) =>
            LET raw_url == run[p].processed_listings[run[p].i].listing_url
                known == {k \in 1..Len(ledger) : UrlKey(ledger[k].listing_url) = UrlKey(raw_url)}
            IN  IF known # {}
                THEN /\ Len(ledger') = Len(ledger)
                     /\ \E k \in known : run[p].batch_id \in BatchIds(ledger'[k].batch_history)
                ELSE /\ Len(ledger') = Len(ledger) + 1
                     /\ ledger'[Len(ledger')].listing_url = UrlKey(raw_url)]_vars

\* tacoma_fresh was inserted and tacoma_again, the same URL under another
\* query string, was merged into its record
C5_BothQueriesOneRecord ==
    \E k \in 1..Len(ledger) :
        /\ ledger[k].listing_url = UrlKey(tacoma_fresh.listing_url)
        /\ ledger[k].title = tacoma_fresh.title
        /\ ledger[k].price = tacoma_again.price
        /\ Len(ledger) = 1

\* C6: after a merge, the score and the tags of the record are those the
\* vetting pass of this run gave the listing.
C6_ScoreAndTagsLatest ==
    [][\A p \in Procs :
         WriteDone(p) =>
            \A k \in Matches(ledger', run[p].listing.listing_url) :
                /\ ledger'[k].score = run[p].listing.score
                /\ ledger'[k].tags = run[p].listing.tags]_vars

\* the listing passes the keyword rules and its scoring does not raise
Scorable(listing) ==
    /\ keyword_rules_of(active_config, listing) = "passed"
    /\ ~calculate_score_of(active_config, listing).raised

\* C7: a call of Vetter.execute returns, and returns the listings of the
\* batch that pass the filters and can be scored, in their order.
C7_RaisingListingSkipped ==
    run["service"].pc \in {"returned", "raised"} =>
        LET expected == SelectSeq(run["service"].raw_listings, Scorable)
            got == run["service"].processed_listings
        IN  /\ run["service"].pc = "returned"
            /\ Len(got) = Len(expected)
            /\ \A n \in 1..Len(got) : got[n].listing_url = expected[n].listing_url

\* C8: a write that fails at the k-th listing leaves run_pipeline by the
\* exception and leaves the ledger as it is, with the k-1 listings merged
\* before it: each has its record, and the batch is in the record's history.
C8_EarlierMergesKept ==
    [][\A p \in Procs :
         run[p].pc = "write" /\ run'[p].pc = "failed" =>
            /\ ledger' = ledger
            /\ \A j \in 1..(run[p].i - 1) :
                 \E k \in Matches(ledger', run[p].processed_listings[j].listing_url) :
                     run[p].batch_id \in BatchIds(ledger'[k].batch_history)]_vars

\* the write of the second listing of a batch has failed
C8_FailedAtSecond ==
    \E p \in Procs :
        /\ run[p].pc = "failed"
        /\ run[p].i = 2
        /\ Matches(ledger, run[p].processed_listings[1].listing_url) # {}

\* C9: when both runs have merged their batches, under different batch_ids,
\* every listing either of them merged has a record whose batch_history
\* holds the batch_id of that run.
C9_NoLostAppend ==
    /\ \A p \in Procs : run[p].pc = "notify"
    /\ run["service"].batch_id # run["manual"].batch_id
    => \A p \in Procs : \A j \in 1..Len(run[p].processed_listings) :
           \E k \in Matches(ledger, run[p].processed_listings[j].listing_url) :
               run[p].batch_id \in BatchIds(ledger[k].batch_history)

\* C10: at most one process is executing run_pipeline.
C10_AtMostOneRun == Cardinality({p \in Procs : Active(p)}) <= 1

(* ---- claims on the methods of the Vetter ---- *)

\* the filter lists in the order the hard filter is specified to look at them
RuleLists == <<"excluded_types", "reject_title_keywords", "reject_description_keywords", "reject_rust_keywords">>

RuleReasons == <<"excluded_vehicle_type", "reject_title_keyword", "reject_description_keyword", "reject_rust_keyword">>

\* listing holds a keyword of the k-th list, letter case apart
MatchesRule(cfg, listing, k) ==
    LET kws == Get(Get(cfg, "filters", <<>>), RuleLists[k], <<>>)
        text == Lower(listing.title) \o <<" ">> \o Lower(listing.description)
    IN  \E n \in 1..Len(kws) : Contains(text, Lower(kws[n]))

NoRuleMatches(cfg, listing) == \A k \in 1..4 : ~MatchesRule(cfg, listing, k)

\* C11: apply_hard_filters rejects with the reason of the first rule that
\* matches, in the order excluded type, reject-title, reject-description,
\* rust: a listing matching an excluded type and a rust keyword is rejected
\* as excluded_vehicle_type.
C11_FirstRuleWins ==
    call.method = "apply_hard_filters" =>
        \A k \in 1..4 :
            (MatchesRule(config, call.listing, k) /\ \A j \in 1..(k - 1) : ~MatchesRule(config, call.listing, j))
            => ~call.passed /\ call.reason.text = RuleReasons[k]

C11_ExcludedAndRust ==
    /\ call.method = "apply_hard_filters"
    /\ MatchesRule(config, call.listing, 1)
    /\ MatchesRule(config, call.listing, 4)
    /\ ~call.passed
    /\ call.reason.text = "excluded_vehicle_type"

\* what calculate_distance returned inside the recorded call of apply_hard_filters
DistanceSeen ==
    IF Len(call.listing.location) = 0 THEN None
    ELSE calculate_distance(config, call.cache, call.listing.location, call.fails.home, call.fails.query).distance

\* C12: a listing that matches no keyword rule passes, with reason
\* passed_but_far_<N>_miles when its location resolves to a distance N
\* beyond the radius and with reason passed otherwise.
C12_DistanceNeverRejects ==
    (call.method = "apply_hard_filters" /\ NoRuleMatches(config, call.listing)) =>
        /\ call.passed
        /\ call.reason = IF DistanceSeen # None /\ DistanceSeen > geo_radius_miles(config)
                         THEN [text |-> "passed_but_far_<N>_miles", miles |-> DistanceSeen]
                         ELSE [text |-> "passed", miles |-> None]

C12_FarPassed ==
    /\ call.method = "apply_hard_filters"
    /\ NoRuleMatches(config, call.listing)
    /\ call.passed
    /\ call.reason = [text |-> "passed_but_far_<N>_miles", miles |-> 1200]

\* the geocoder gives no point for location on this cache: it knows no such
\* place, or it knows no home ZIP, or a call that has to be made raises
NotGeocoded(cfg, cache, location, fails) ==
    LET home == Get(Get(cfg, "location", <<>>), "zip_code", place_home)
        q == location_query(location)
    IN  \/ home \notin DOMAIN cache /\ fails.home
        \/ World(home) = Unresolved
        \/ q \notin DOMAIN cache /\ q # home /\ fails.query
        \/ World(q) = Unresolved

\* C13: when the location or the home ZIP cannot be geocoded (no result, or
\* the geocoder raises), calculate_distance returns None and a listing that
\* matches no keyword rule passes with reason passed.
C13_UnresolvedIsSkipped ==
    /\ (call.method = "calculate_distance" /\ NotGeocoded(config, call.cache, call.location, call.fails))
       => call.distance = None
    /\ (/\ call.method = "apply_hard_filters"
        /\ NoRuleMatches(config, call.listing)
        /\ Len(call.listing.location) > 0
        /\ NotGeocoded(config, call.cache, call.listing.location, call.fails))
       => call.passed /\ call.reason = [text |-> "passed", miles |-> None]

C13_GeocoderRaised ==
    /\ call.method = "apply_hard_filters"
    /\ call.listing = civic_far
    /\ call.fails.query
    /\ location_query(call.listing.location) \notin DOMAIN call.cache
    /\ home_zip_code(config) \in DOMAIN call.cache
    /\ call.passed
    /\ call.reason = [text |-> "passed", miles |-> None]

\* the hard filter passes listing, whatever the geocoder does
PassesHardFilter(listing) ==
    \A fails \in FailChoices, cache \in {<<>>, geo_cache["service"]} :
        apply_hard_filters(active_config, cache, listing, fails.home, fails.query).passed

\* C14: Vetter.execute returns exactly the input listings that passed the
\* hard filter, in their order, each with score, tags, phone_numbers and
\* vet_status = approved added; a listing that failed is not in the output.
C14_ExactlyThePassed ==
    run["service"].pc = "returned" =>
        LET raw == run["service"].raw_listings
            out == run["service"].processed_listings
            kept == SelectSeq(raw, PassesHardFilter)
        IN  /\ Len(out) = Len(kept)
            /\ \A n \in 1..Len(out) :
                 /\ DOMAIN out[n] = DOMAIN kept[n] \cup {"score", "tags", "phone_numbers", "vet_status"}
                 /\ \A k \in DOMAIN kept[n] : out[n][k] = kept[n][k]
                 /\ out[n].vet_status = "approved"
                 /\ out[n].score = calculate_score_of(active_config, kept[n]).score
                 /\ out[n].tags = calculate_score_of(active_config, kept[n]).tags
                 /\ out[n].phone_numbers = extract_phone_numbers_of(kept[n])

C14_RejectedDropped ==
    /\ run["service"].pc = "returned"
    /\ Len(run["service"].raw_listings) = 2
    /\ run["service"].raw_listings[1] = honda_motorcycle
    /\ Len(run["service"].processed_listings) = 1
    /\ run["service"].processed_listings[1].title = focus_cheap.title

TagsOf(scored) == {scored.tags[n] : n \in 1..Len(scored.tags)}

Scored(cfg, listing) ==
    call.method = "calculate_score" /\ config = cfg /\ call.listing = listing /\ ~call.returned.raised

\* C15: with "toyota" as high-value make and default weights, the listing
\* "2022 Toyota Tacoma TRD" (price 35000, mileage 15000, listed half an hour
\* ago) gets a high-value tag, fresh_listing, modern_year, low_mileage and
\* pickup_truck, and the score 130.
C15_TacomaScores130 ==
    Scored(toyota_config, tacoma_trd) =>
        /\ {"fresh_listing", "modern_year", "low_mileage", "pickup_truck"} \subseteq TagsOf(call.returned)
        /\ TagsOf(call.returned) \cap {"high_value_make", "high_value_keyword"} # {}
        /\ call.returned.score = 130

\* C15 as amended: the title holds neither "pickup" nor "truck", so the
\* listing gets no pickup_truck tag and the score 50+15+25+10+15 = 115; the
\* same listing with "truck" in its title gets pickup_truck and 130.
C15_TacomaScores115 ==
    /\ Scored(toyota_config, tacoma_trd) =>
        /\ {"fresh_listing", "modern_year", "low_mileage"} \subseteq TagsOf(call.returned)
        /\ TagsOf(call.returned) \cap {"high_value_make", "high_value_keyword"} # {}
        /\ "pickup_truck" \notin TagsOf(call.returned)
        /\ call.returned.score = 115
    /\ Scored(toyota_config, tacoma_trd_truck) =>
        /\ {"fresh_listing", "modern_year", "low_mileage", "pickup_truck"} \subseteq TagsOf(call.returned)
        /\ TagsOf(call.returned) \cap {"high_value_make", "high_value_keyword"} # {}
        /\ call.returned.score = 130

C15_TacomaScored == Scored(toyota_config, tacoma_trd) /\ call.returned.score = 115

\* C16: with "altima" as low-value model, "Nissan Altima" at price 5000 and
\* no other rule firing gets the tag reject_low_value_model and the score
\* -50: the score is not floored at 0.
C16_AltimaScoresMinus50 ==
    /\ Scored(altima_config, altima_dear) =>
        call.returned.tags = <<"reject_low_value_model">> /\ call.returned.score = -50
    /\ (call.method = "calculate_score" /\ ~call.returned.raised
        /\ call.returned.tags = <<"reject_low_value_model">>) => call.returned.score = -50

C16_AltimaScored == Scored(altima_config, altima_dear) /\ call.returned.score < 0

\* the state the scoring rules start from
BaseScore == [score |-> 50, tags |-> <<>>]

\* the rules that adjust the score or the tags of this listing
Triggered(cfg, in) == {k \in 1..10 : ScoreRule(k, cfg, in, BaseScore) # BaseScore}

RECURSIVE Orders(_)
Orders(S) == IF S = {} THEN {<<>>} ELSE UNION {{<<k>> \o o : o \in Orders(S \ {k})} : k \in S}

\* the score after the rules of order were applied, one after the other, to st
RECURSIVE ScoreInOrder(_, _, _, _)
ScoreInOrder(order, cfg, in, st) ==
    IF order = <<>> THEN st.score
    ELSE The({ScoreInOrder(Tail(order), cfg, in, next) : next \in {ScoreRule(Head(order), cfg, in, st)}})

\* the junk-SUV rule caps the score of this listing
CapTriggered(cfg, in) == ScoreRule(1, cfg, in, BaseScore).tags = <<"junk_suv_super_cheap">>

\* per configuration and listing: the scores the orders of the triggered
\* rules give, over all orders and over the orders that begin with the cap
\* when the cap is triggered
OrderScores ==
    [cfg \in Configs |-> [l \in CallCatalog |->
        The({[any |-> {ScoreInOrder(o, cfg, in, BaseScore) : o \in Orders(Triggered(cfg, in))},
              cap_first |-> {ScoreInOrder(o, cfg, in, BaseScore) :
                                o \in {p \in Orders(Triggered(cfg, in)) : CapTriggered(cfg, in) => p[1] = 1}}]
             : in \in {ScoreInputs(cfg, l)}})]]

\* C18: the triggered adjustments applied to the base 50 in any order give
\* the score calculate_score returns.
C18_AnyOrderSameScore ==
    (call.method = "calculate_score" /\ ~call.returned.raised) =>
        OrderScores[config][call.listing].any = {call.returned.score}

\* C18 as amended: the junk-SUV cap min(score, 30) is not additive; the
\* triggered adjustments applied in any order that has the cap, when it is
\* triggered, first give the score calculate_score returns.
C18_AnyOrderAfterCap ==
    (call.method = "calculate_score" /\ ~call.returned.raised) =>
        OrderScores[config][call.listing].cap_first = {call.returned.score}

C18_CappedWithBonuses ==
    /\ Scored(active_config, suv_junk_cheap)
    /\ "junk_suv_super_cheap" \in TagsOf(call.returned)
    /\ Len(call.returned.tags) >= 3
    /\ Cardinality(OrderScores[config][call.listing].any) > 1

\* C19: a junk SUV at or below the override price (tag
\* junk_suv_super_cheap) gets a score of at most 30, whatever bonuses fire.
C19_CheapJunkSuvAtMost30 ==
    (call.method = "calculate_score" /\ ~call.returned.raised
     /\ "junk_suv_super_cheap" \in TagsOf(call.returned)) => call.returned.score <= 30

\* C20: a listing with high-value status gets neither older_non_high_value
\* nor high_mileage_risk; a listing without it gets older_non_high_value
\* when its year is below 2005 and high_mileage_risk when its mileage is
\* above 180000.
C20_HighValueExempt ==
    (call.method = "calculate_score" /\ ~call.returned.raised) =>
        LET tags == TagsOf(call.returned)
            year == _extract_year(Lower(call.listing.description) \o <<" ">> \o Lower(call.listing.title))
            mileage == call.listing.mileage
            high == tags \cap {"high_value_keyword", "high_value_make"} # {}
        IN  /\ high => tags \cap {"older_non_high_value", "high_mileage_risk"} = {}
            /\ (~high /\ year # None /\ year < 2005) => "older_non_high_value" \in tags
            /\ (~high /\ mileage # None /\ mileage > 180000) => "high_mileage_risk" \in tags

C20_OldWornHighValue ==
    /\ Scored(active_config, runner_old)
    /\ "high_value_keyword" \in TagsOf(call.returned)
    /\ call.returned.score = 65

\* the queries a recorded call sent to the geocoder
Sent(c) == IF "calls" \in DOMAIN c THEN {c.calls[n] : n \in 1..Len(c.calls)} ELSE {}

\* C21: the geocoder is called at most once per query string in the
\* lifetime of a Vetter, failed resolutions included: a call that follows
\* another sends the geocoder no query the earlier call has sent.
C21_NoQuerySentTwice ==
    [][Sent(call) \cap Sent(call') = {}]_vars

\* the positions of text where a numeral is followed by "k" or "K"
KNotationAt(text) ==
    {i \in 2..Len(text) : text[i] \in {"k", "K"} /\ IsDigit(text[i - 1])}

\* the numeral that ends right before position i
RECURSIVE NumeralBefore(_, _)
NumeralBefore(text, i) ==
    IF i > 1 /\ IsDigit(text[i - 1]) THEN 10 * NumeralBefore(text, i - 1) + DigitVal(text[i - 1]) ELSE 0

HasCommaGroup(text) == \E i \in 2..Len(text) : text[i] = "," /\ IsDigit(text[i - 1]) /\ DigitsAt(text, i + 1, 3)

\* C22: without a comma-grouped numeral, extract_mileage reads "NNk" as
\* NN*1000 ("120k miles" gives 120000), falls back to the digits of the text
\* otherwise, and returns 0 when nothing parses.
C22_KNotationTimes1000 ==
    call.method = "extract_mileage" =>
        LET text == call.mileage_text
        IN  /\ (~HasCommaGroup(text) /\ KNotationAt(text) # {})
               => \E i \in KNotationAt(text) : call.returned = 1000 * NumeralBefore(text, i)
            /\ (\A n \in 1..Len(text) : ~IsDigit(text[n])) => call.returned = 0

\* the listing the run of p is merging, as the Vetter returned it
Incoming(p) == run[p].processed_listings[run[p].i]

StoredUnder(table, url) == {k \in 1..Len(table) : table[k].listing_url = url}

\* C23: when the normalized URL is not in the ledger, the merge inserts a
\* record with status active (or the status the listing carries), the
\* normalized URL as listing_url, and the one entry {batch_id, batch_name,
\* price} of the current batch as batch_history.
C23_InsertOfNewUrl ==
    [][\A p \in Procs :
        (WriteDone(p) /\ StoredUnder(ledger, UrlKey(Incoming(p).listing_url)) = {}) =>
            /\ Len(ledger') = Len(ledger) + 1
            /\ SubSeq(ledger', 1, Len(ledger)) = ledger
            /\ LET new == ledger'[Len(ledger')]
               IN  /\ new.status = IF "status" \in DOMAIN Incoming(p) THEN Incoming(p).status ELSE "active"
                   /\ new.listing_url = UrlKey(Incoming(p).listing_url)
                   /\ new.batch_history = <<[batch_id |-> run[p].batch_id,
                                             batch_name |-> run[p].batch_name,
                                             price |-> Incoming(p).price]>>
                   /\ new.processed_at = now]_vars

C23_Inserted ==
    /\ Len(ledger) = 1
    /\ ledger[1].listing_url = <<"f", "b", "/", "1">>
    /\ ledger[1].status = "active"
    /\ Len(ledger[1].batch_history) = 1
    /\ ledger[1].batch_history[1].price = 5000

\* the fields the update path may write
Volatile == {"price", "score", "tags", "last_seen", "batch_id", "batch_name", "batch_history"}

\* C24: a merge changes only the record of its normalized URL; no step
\* removes a record or moves it to another URL; the update path writes no
\* field other than price, score, tags, last_seen, batch_id, batch_name and
\* batch_history.
C24_MergeFrame ==
    [][/\ Len(ledger') >= Len(ledger)
       /\ \A k \in 1..Len(ledger) : ledger'[k].listing_url = ledger[k].listing_url
       /\ \A p \in Procs : WriteDone(p) =>
            \A k \in 1..Len(ledger) :
                IF ledger[k].listing_url # UrlKey(Incoming(p).listing_url)
                THEN ledger'[k] = ledger[k]
                ELSE /\ DOMAIN ledger[k] \subseteq DOMAIN ledger'[k]
                     /\ DOMAIN ledger'[k] \ DOMAIN ledger[k] \subseteq Volatile
                     /\ \A f \in DOMAIN ledger[k] \ Volatile : ledger'[k][f] = ledger[k][f]]_vars

C24_OneUpdatedOneLeft ==
    /\ Len(ledger) = 2
    /\ "last_seen" \in DOMAIN ledger[1]
    /\ "last_seen" \notin DOMAIN ledger[2]

\* the text of listing holds an entry of the list `name` of the configuration
MatchesMakes(cfg, listing, name) ==
    LET entries == Get(Get(cfg, "lists", <<>>), name, <<>>)
        text == Lower(listing.description) \o <<" ">> \o Lower(listing.title)
    IN  \E n \in 1..Len(entries) : Contains(text, Lower(entries[n]))

\* C25: a listing over $1500 that matches a low-value model and a
\* high-value keyword gets reject_low_value_model (-100) and
\* high_value_keyword (+high_value_bonus), and neither the age nor the
\* mileage penalty.
C25_LowAndHighBothApply ==
    /\ (/\ call.method = "calculate_score"
        /\ ~call.returned.raised
        /\ call.listing.price > 1500
        /\ MatchesMakes(config, call.listing, "low_value_makes")
        /\ MatchesMakes(config, call.listing, "high_value_makes"))
       => /\ {"reject_low_value_model", "high_value_keyword"} \subseteq TagsOf(call.returned)
          /\ TagsOf(call.returned) \cap {"older_non_high_value", "high_mileage_risk"} = {}
    /\ Scored(active_config, ranger_toyota) => call.returned.score = 50 - 100 + 15

C25_LowAndHighScored ==
    /\ Scored(active_config, ranger_toyota)
    /\ call.returned.tags = <<"reject_low_value_model", "high_value_keyword">>

\* the run of p has merged, earlier in this batch, a listing of the URL it
\* is merging now, and that listing made the record
SecondOfNewUrl(p) ==
    LET url == UrlKey(Incoming(p).listing_url)
    IN  /\ \E j \in 1..(run[p].i - 1) : UrlKey(run[p].processed_listings[j].listing_url) = url
        /\ \A k \in StoredUnder(ledger, url) :
               /\ Len(ledger[k].batch_history) = 1
               /\ ledger[k].batch_history[1].batch_id = run[p].batch_id

\* C26: when a batch holds two approved listings of one normalized URL that
\* is new to the ledger, the first is inserted and the second updates it:
\* the ledger has one record for the URL, its batch_history has exactly one
\* entry, for this batch, and its price and score are those of the later
\* listing.
C26_SameUrlTwiceInBatch ==
    [][\A p \in Procs :
        (WriteDone(p) /\ SecondOfNewUrl(p)) =>
            LET url == UrlKey(Incoming(p).listing_url)
            IN  /\ Cardinality(StoredUnder(ledger', url)) = 1
                /\ Len(ledger') = Len(ledger)
                /\ \A k \in StoredUnder(ledger', url) :
                       /\ Len(ledger'[k].batch_history) = 1
                       /\ ledger'[k].batch_history[1].batch_id = run[p].batch_id
                       /\ ledger'[k].price = Incoming(p).price
                       /\ ledger'[k].score = Incoming(p).score]_vars

C26_BothMerged ==
    /\ \E p \in Procs :
         /\ run[p].pc = "notify"
         /\ Len(run[p].processed_listings) = 2
         /\ run[p].processed_listings[1].price = 5000
         /\ run[p].processed_listings[2].price = 4500
    /\ Len(ledger) = 1
    /\ Len(ledger[1].batch_history) = 1
    /\ ledger[1].price = 4500
    /\ ledger[1].score = 75

\* between the look-up of the run of p and now, an operator has changed the
\* status of the record the run has looked up
StatusChangedSinceLookup(p) ==
    /\ run[p].pc = "write"
    /\ run[p].existing_results # <<>>
    /\ \E k \in StoredUnder(ledger, run[p].listing.listing_url) :
           ledger[k].status # run[p].existing_results[1].status

\* C27: a status the operator sets between the merge's look-up of a URL and
\* its write for that URL is still the record's status after the write.
C27_OperatorStatusSurvivesWrite ==
    [][\A p \in Procs :
        (StatusChangedSinceLookup(p) /\ WriteDone(p)) =>
            \A k \in StoredUnder(ledger, run[p].listing.listing_url) :
                /\ ledger'[k].status = ledger[k].status
                /\ ledger'[k].last_seen = now]_vars

C27_ChangedBetween ==
    \E p \in Procs :
        /\ StatusChangedSinceLookup(p)
        /\ run[p].existing_results[1].status = "active"
        /\ \E k \in StoredUnder(ledger, run[p].listing.listing_url) : ledger[k].status \in {"sold", "deleted"}

\* C28: the digest keeps every listing process_listing added (70 <= score
\* < 90) until a digest e-mail was sent: send_daily_digest empties it only
\* when send_daily_digest_email returned True; a failed send, an exception
\* or an empty digest leaves it as it was.
C28_DigestKeptUntilSent ==
    [][LET before == daily_digest["service"]
           after == daily_digest'["service"]
       IN  /\ call'.method = "process_listing" =>
                after = IF 70 <= call'.listing.score /\ call'.listing.score < 90
                        THEN Append(before, call'.listing) ELSE before
           /\ call'.method = "send_daily_digest" =>
                after = IF call'.outcome = "sent" THEN <<>> ELSE before
           /\ IsPrefix(before, after)
              \/ (call'.method = "send_daily_digest" /\ call'.outcome = "sent")]_vars

C28_FailedSendKept ==
    /\ call.method = "send_daily_digest"
    /\ call.outcome \in {"failed", "raised"}
    /\ Len(call.digest) = 2
    /\ daily_digest["service"] = call.digest

\* the make _extract_make reads from the text calculate_score builds
MakeOf(listing) == _extract_make(Lower(listing.description) \o <<" ">> \o Lower(listing.title))

\* C29: calculate_score never emits high_value_make: when the extracted
\* make is a configured high-value entry, that entry is in the combined
\* text and the high_value_keyword branch fires.
C29_NoHighValueMakeTag ==
    (call.method = "calculate_score" /\ ~call.returned.raised) =>
        /\ "high_value_make" \notin TagsOf(call.returned)
        /\ (\E n \in 1..Len(ListOf(config, "lists", "high_value_makes")) :
                MakeOf(call.listing) = Lower(ListOf(config, "lists", "high_value_makes")[n]))
           => "high_value_keyword" \in TagsOf(call.returned)

C29_MakeIsHighValue ==
    /\ Scored(toyota_config, tacoma_trd)
    /\ MakeOf(call.listing) = <<"t", "o", "y", "o", "t", "a">>
    /\ "high_value_keyword" \in TagsOf(call.returned)

\* C30: the estimated repair cost is at most 1500 (500 for an AWD or sensor
\* issue, 1000 for a transmission issue) and never above the tolerance of
\* 2000: repair_cost_exceeds_tolerance and its -30 are never applied.
C30_RepairsNeverExceedTolerance ==
    (call.method = "calculate_score" /\ ~call.returned.raised) =>
        /\ "repair_cost_exceeds_tolerance" \notin TagsOf(call.returned)
        /\ ({"awd_or_sensor_issue", "minor_transmission_issue"} \subseteq TagsOf(call.returned)
            /\ Len(call.returned.tags) = 3 /\ "high_value_keyword" \in TagsOf(call.returned))
           => call.returned.score = 50 + Weight(config, "high_value_bonus", 15)

C30_BothIssues ==
    /\ Scored(active_config, outback_faults)
    /\ call.returned.tags = <<"high_value_keyword", "awd_or_sensor_issue", "minor_transmission_issue">>
    /\ call.returned.score = 65

====
